---- MODULE Spec2Model ----
(***************************************************************************)
(* The TicTacToe agent of src/server.ts as a state machine.                *)
(*                                                                         *)
(* The agent state is the TicTacToeState record (board, currentPlayer,     *)
(* winner, mode, isAiThinking).  makeMove is an async method: it runs      *)
(* without interruption up to `await generateObject(...)` (the Move Source *)
(* request) and its continuation runs later, when the response arrives.    *)
(* While a continuation is suspended the agent serves other calls, so the  *)
(* suspended continuations are part of the state: `pending`.               *)
(*                                                                         *)
(* Some of the state is observation and not agent state: each pending     *)
(* request remembers the side it was issued for and whether clearBoard     *)
(* has run since it was issued; thrown is the error a call has just thrown *)
(* and that is on its way to the caller (Nothing otherwise), with whether  *)
(* the catch block of makeMove logged it; lastMover is the side of the     *)
(* most recent applied move of the current game.                           *)
(* JavaScript runs each call to its await or its end before the next one   *)
(* starts; the model lets the thrown error reach the caller before the     *)
(* next call is handled, which orders observations only.                   *)
(*                                                                         *)
(* The client (client.tsx) is the rest of the state: view is its local     *)
(* copy of the agent state, replaced by each state snapshot it receives;   *)
(* snaps is the sequence of snapshots the agent has broadcast and the      *)
(* client has not yet received; client is the position of the client in    *)
(* its initGame effect.  The display-only counters of the client           *)
(* (gamesPlayed, stats) are read by no handler and are left out.           *)
(***************************************************************************)
EXTENDS Integers, FiniteSets, Bags, Sequences

VARIABLES board, currentPlayer, winner, mode, isAiThinking,
          pending, thrown, lastMover,
          view, snaps, client

state == <<board, currentPlayer, winner, mode, isAiThinking>>
ui    == <<view, snaps, client>>
vars  == <<board, currentPlayer, winner, mode, isAiThinking,
           pending, thrown, lastMover, view, snaps, client>>

\* The board is 3x3 (server.ts:23-27); indices are 0..N-1.
N == 3
\* Largest number of suspended makeMove continuations the model follows.
MaxPending == 2
\* Callers and the Move Source aim at the first MaxCells cells of the grid
\* (row by row), and at one coordinate outside it in each direction.
MaxCells == 6
\* Largest number of broadcast snapshots on their way to the client.
MaxSnaps == 2

Idx      == 0 .. (N - 1)
Grid     == Idx \X Idx
\* [row, col] pairs sent by a caller or returned by the Move Source
\* (z.array(z.number()) accepts any numbers): cells of the grid, a row that
\* does not exist and a column that does not exist.
Moves    == {m \in Grid : N * m[1] + m[2] < MaxCells} \cup {<<N, 0>>, <<0, N>>}
Players  == {"X", "O"}
Modes    == {"player-vs-ai", "ai-vs-ai"}
null     == "null"

\* initialState.board
EmptyBoard == [r \in Idx |-> [c \in Idx |-> null]]

\* The turn is handed back to the side that just moved.
OtherSame(p) == p

\* player === "X" ? "O" : "X"
Other(p) == IF p = "X" THEN "O" ELSE "X"

\* The eight lines with the second diagonal given as the first one again.
winningLinesOneDiagonal ==
  << << <<0, 0>>, <<0, 1>>, <<0, 2>> >>,
     << <<1, 0>>, <<1, 1>>, <<1, 2>> >>,
     << <<2, 0>>, <<2, 1>>, <<2, 2>> >>,
     << <<0, 0>>, <<1, 0>>, <<2, 0>> >>,
     << <<0, 1>>, <<1, 1>>, <<2, 1>> >>,
     << <<0, 2>>, <<1, 2>>, <<2, 2>> >>,
     << <<0, 0>>, <<1, 1>>, <<2, 2>> >>,
     << <<0, 0>>, <<1, 1>>, <<2, 2>> >> >>

\* The eight lines of checkWinner, in source order.
winningLines ==
  << << <<0, 0>>, <<0, 1>>, <<0, 2>> >>,
     << <<1, 0>>, <<1, 1>>, <<1, 2>> >>,
     << <<2, 0>>, <<2, 1>>, <<2, 2>> >>,
     << <<0, 0>>, <<1, 0>>, <<2, 0>> >>,
     << <<0, 1>>, <<1, 1>>, <<2, 1>> >>,
     << <<0, 2>>, <<1, 2>>, <<2, 2>> >>,
     << <<0, 0>>, <<1, 1>>, <<2, 2>> >>,
     << <<0, 2>>, <<1, 1>>, <<2, 0>> >> >>

\* The comparison with the third cell of the line is left out.
LineWonTwo(b, i) ==
  LET a  == winningLines[i][1]
      bb == winningLines[i][2]
  IN  /\ b[a[1]][a[2]] # null
      /\ b[a[1]][a[2]] = b[bb[1]][bb[2]]

\* The condition of the if inside checkWinner's loop, for line number i.
LineWon(b, i) ==
  LET a  == winningLines[i][1]
      bb == winningLines[i][2]
      c  == winningLines[i][3]
  IN  /\ b[a[1]][a[2]] # null
      /\ b[a[1]][a[2]] = b[bb[1]][bb[2]]
      /\ b[a[1]][a[2]] = b[c[1]][c[2]]

\* checkWinner: the mark of the first line that is won, or null.
RECURSIVE FirstWon(_, _)
FirstWon(b, i) ==
  IF i > 8 THEN null
  ELSE IF LineWon(b, i)
       THEN b[winningLines[i][1][1]][winningLines[i][1][2]]
       ELSE FirstWon(b, i + 1)

checkWinner(b) == FirstWon(b, 1)

\* this.state.board.every((row) => row.every((cell) => cell !== null))
IsFull(b) == \A r \in Idx : \A c \in Idx : b[r][c] # null

\* The Move Source is asked for the moves of O only, in either mode.
shouldAIPlayOnlyO(m, p) == p = "O"

\* The Move Source is asked for the moves of both sides, in either mode.
shouldAIPlayBothSides(m, p) == TRUE

\* shouldAIPlay, for mode m and side to move p.
shouldAIPlay(m, p) ==
  m = "ai-vs-ai" \/ (m = "player-vs-ai" /\ p = "O")

\* The turn is checked for calls made as O only.
WrongTurnOnlyForO(p) == p = "O" /\ currentPlayer # p

\* The turn check is skipped.
WrongTurnSkipped(p) == FALSE

\* this.state.currentPlayer !== player
WrongTurn(p) == currentPlayer # p

\* this.state.board[row] is undefined, so indexing it throws a TypeError.
RowMissing(r) == r \notin Idx

\* A column that does not exist reads as an empty cell (what the loose
\* comparison `!= null` would make of undefined).
CellLoose(r, c) == IF c \in Idx THEN board[r][c] ELSE null

\* this.state.board[row][col] for an existing row: a cell, or undefined.
Cell(r, c) == IF c \in Idx THEN board[r][c] ELSE "undefined"

\* Only a cell holding the caller's opponent's mark counts as played.
CellPlayedByOpponent(r, c) == Cell(r, c) \notin {null, currentPlayer}

\* Only a cell holding the caller's own mark counts as played.
CellPlayedOwn(r, c) == Cell(r, c) \notin {null, Other(currentPlayer)}

\* this.state.board[row][col] !== null
CellPlayed(r, c) == Cell(r, c) # null

\* The error the validation at the top of makeMove throws, or "none".
Validate(r, c, p) ==
  IF WrongTurn(p) THEN "WrongTurn"
  ELSE IF RowMissing(r) THEN "TypeError"
  ELSE IF CellPlayed(r, c) THEN "CellOccupied"
  ELSE "none"

\* No error is on its way to a caller.
Nothing == [err |-> "none", logged |-> FALSE]

\* A Move Source request: the side named in its prompt, and whether
\* clearBoard has run since it was issued.
Request(p) == [side |-> p, stale |-> FALSE]
Requests   == [side : Players, stale : BOOLEAN]

Outstanding == BagCardinality(pending)

\* makeMove after validation with a first setState that spreads the old
\* state and so leaves isAiThinking as it was.
ApplyKeepsThinking(r, c, p, rest) ==
  LET b  == [board EXCEPT ![r][c] = p]
      w  == checkWinner(b)
      cp == Other(p)
      ai == w = null /\ ~IsFull(b) /\ shouldAIPlay(mode, cp)
  IN  /\ ai => BagCardinality(rest) < MaxPending
      /\ board' = b
      /\ currentPlayer' = cp
      /\ winner' = w
      /\ isAiThinking' = (ai \/ isAiThinking)
      /\ pending' = IF ai THEN rest (+) SetToBag({Request(cp)}) ELSE rest
      /\ lastMover' = p
      /\ UNCHANGED mode

\* makeMove after validation, up to the await: the board copy with the new
\* mark, setState, the two early returns, shouldAIPlay and the second
\* setState.  `rest` is the bag of continuations other than the caller's.
Apply(r, c, p, rest) ==
  LET b  == [board EXCEPT ![r][c] = p]
      w  == checkWinner(b)
      cp == Other(p)
      ai == w = null /\ ~IsFull(b) /\ shouldAIPlay(mode, cp)
  IN  /\ ai => BagCardinality(rest) < MaxPending
      /\ board' = b
      /\ currentPlayer' = cp
      /\ winner' = w
      /\ isAiThinking' = ai
      /\ pending' = IF ai THEN rest (+) SetToBag({Request(cp)}) ELSE rest
      /\ lastMover' = p
      /\ UNCHANGED mode

\* A client calls makeMove([r, c], p).
MakeMove(m, p) ==
  LET r   == m[1]
      c   == m[2]
      res == Validate(r, c, p)
  IN  /\ thrown = Nothing
      /\ thrown' = [err |-> res, logged |-> FALSE]
      /\ IF res = "none"
         THEN Apply(r, c, p, pending)
         ELSE UNCHANGED <<state, pending, lastMover>>

\* generateObject resolves with move [r, c] for request q: the continuation
\* calls this.makeMove(object.move, this.state.currentPlayer); an error
\* thrown by that call is logged and rethrown.
Respond(q, m) ==
  LET r    == m[1]
      c    == m[2]
      res  == Validate(r, c, currentPlayer)
      rest == pending (-) SetToBag({q})
  IN  /\ thrown = Nothing
      /\ BagIn(q, pending)
      /\ thrown' = [err |-> res, logged |-> res # "none"]
      /\ IF res = "none"
         THEN Apply(r, c, currentPlayer, rest)
         ELSE /\ pending' = rest
              /\ UNCHANGED <<state, lastMover>>

\* generateObject rejects for request q: the catch block logs and rethrows.
Fail(q) ==
  /\ thrown = Nothing
  /\ BagIn(q, pending)
  /\ pending' = pending (-) SetToBag({q})
  /\ thrown' = [err |-> "MoveSourceFailure", logged |-> TRUE]
  /\ UNCHANGED <<state, lastMover>>

\* Every suspended continuation now predates a reset.
MarkStale(bag) ==
  LET olds == {q \in Requests : BagIn([q EXCEPT !.stale = FALSE], bag)
                                  \/ BagIn([q EXCEPT !.stale = TRUE], bag)}
  IN  [q \in {x \in olds : x.stale} |->
         (IF BagIn(q, bag) THEN bag[q] ELSE 0)
         + (IF BagIn([q EXCEPT !.stale = FALSE], bag)
            THEN bag[[q EXCEPT !.stale = FALSE]] ELSE 0)]

\* clearBoard that empties the board and leaves the turn where it is.
ClearBoardKeepsTurn ==
  /\ thrown = Nothing
  /\ board' = EmptyBoard
  /\ winner' = null
  /\ isAiThinking' = FALSE
  /\ pending' = MarkStale(pending)
  /\ lastMover' = null
  /\ UNCHANGED <<currentPlayer, mode, thrown>>

\* clearBoard as setState(this.initialState): the mode is reset as well.
ClearBoardDefaultMode ==
  /\ thrown = Nothing
  /\ board' = EmptyBoard
  /\ currentPlayer' = "X"
  /\ winner' = null
  /\ mode' = "player-vs-ai"
  /\ isAiThinking' = FALSE
  /\ pending' = MarkStale(pending)
  /\ lastMover' = null
  /\ UNCHANGED thrown

\* clearBoard: setState({...initialState, mode: this.state.mode}).
ClearBoard ==
  /\ thrown = Nothing
  /\ board' = EmptyBoard
  /\ currentPlayer' = "X"
  /\ winner' = null
  /\ isAiThinking' = FALSE
  /\ pending' = MarkStale(pending)
  /\ lastMover' = null
  /\ UNCHANGED <<mode, thrown>>

\* setMode that also clears the thinking flag.
SetModeClearsThinking(m) ==
  /\ thrown = Nothing
  /\ mode' = m
  /\ isAiThinking' = FALSE
  /\ UNCHANGED <<board, currentPlayer, winner, pending, lastMover, thrown>>

\* setMode(m): setState({...this.state, mode}).
SetMode(m) ==
  /\ thrown = Nothing
  /\ mode' = m
  /\ UNCHANGED <<board, currentPlayer, winner, isAiThinking, pending,
                 lastMover, thrown>>

\* The error thrown by the call just handled reaches its caller (the RPC
\* caller of a @callable method; for a continuation, `throw error` in the
\* catch block rejects the promise the original caller awaits).
Deliver ==
  /\ thrown # Nothing
  /\ thrown' = Nothing
  /\ UNCHANGED <<state, pending, lastMover>>

\* initialState; nothing has been called yet.
\* The local state of the client before the first snapshot (useState).
InitialView ==
  [board |-> EmptyBoard, currentPlayer |-> "X", winner |-> null,
   mode |-> "player-vs-ai", isAiThinking |-> FALSE]

Init ==
  /\ board = EmptyBoard
  /\ currentPlayer = "X"
  /\ winner = null
  /\ mode = "player-vs-ai"
  /\ isAiThinking = FALSE
  /\ pending = EmptyBag
  /\ thrown = Nothing
  /\ lastMover = null
  /\ view = InitialView
  /\ snaps = <<>>
  /\ client = "start"

\* The agent alone, called by arbitrary clients: the client of client.tsx
\* stands still.
Next ==
  \/ \E m \in Moves, p \in Players : MakeMove(m, p) /\ UNCHANGED ui
  \/ \E q \in Requests, m \in Moves : Respond(q, m) /\ UNCHANGED ui
  \/ \E q \in Requests : Fail(q) /\ UNCHANGED ui
  \/ ClearBoard /\ UNCHANGED ui
  \/ \E m \in Modes : SetMode(m) /\ UNCHANGED ui
  \/ Deliver /\ UNCHANGED ui

Spec == Init /\ [][Next]_vars

(***************************************************************************)
(* The agent with the client of client.tsx on the player-vs-ai route.      *)
(* Every setState of the agent broadcasts a snapshot; the client receives  *)
(* the snapshots in the order they were sent, and its handlers read view.  *)
(***************************************************************************)

\* The snapshot a setState of the step broadcasts, with isAiThinking as
\* that setState wrote it.
Shot(ai) ==
  [board |-> board', currentPlayer |-> currentPlayer', winner |-> winner',
   mode |-> mode', isAiThinking |-> ai]

\* The snapshots of a makeMove that returned or threw with thrown' : none
\* when it threw before its first setState, one for the move (server.ts:60)
\* and one more when the Move Source is asked (server.ts:83).
Broadcasts ==
  IF thrown'.err # "none" THEN <<>>
  ELSE IF isAiThinking' THEN <<Shot(FALSE), Shot(TRUE)>>
  ELSE <<Shot(FALSE)>>

\* The step appends the snapshots sq to those in flight.
Send(sq) == snaps' = snaps \o sq /\ Len(snaps') <= MaxSnaps

\* handleCellClick(row, col): a click on cell m of the board shown.
handleCellClick(m) ==
  /\ view.mode # "ai-vs-ai"
  /\ ~view.isAiThinking
  /\ view.board[m[1]][m[2]] = null
  /\ view.winner = null
  /\ MakeMove(m, view.currentPlayer)
  /\ Send(Broadcasts)
  /\ UNCHANGED <<view, client>>

\* The response to request q arrives at the agent.
RespondUI(q, m) ==
  /\ Respond(q, m)
  /\ Send(Broadcasts)
  /\ UNCHANGED <<view, client>>

\* handleNewGame: the New Game button, or the timer of the game-over effect.
handleNewGame ==
  /\ ClearBoard
  /\ Send(<<Shot(FALSE)>>)
  /\ UNCHANGED <<view, client>>

\* onStateUpdate: the oldest snapshot in flight replaces the local state.
onStateUpdate ==
  /\ snaps # <<>>
  /\ view' = Head(snaps)
  /\ snaps' = Tail(snaps)
  /\ UNCHANGED <<state, pending, thrown, lastMover, client>>

NextUI ==
  \/ \E m \in Moves \cap Grid : handleCellClick(m)
  \/ \E q \in Requests, m \in Moves : RespondUI(q, m)
  \/ \E q \in Requests : Fail(q) /\ UNCHANGED ui
  \/ handleNewGame
  \/ onStateUpdate
  \/ Deliver /\ UNCHANGED ui

SpecUI == Init /\ [][NextUI]_vars

(***************************************************************************)
(* The agent with the client of client.tsx on the ai-vs-ai route, and a    *)
(* Move Source that answers every request with an empty cell.  The client  *)
(* mounts, its initGame effect sets the mode, clears the board and starts  *)
(* the timer of the first move; the game-over effect restarts a finished   *)
(* game.  Clicks are disabled on this route.  A finished game has no       *)
(* request outstanding, so the agent state no longer changes on its own    *)
(* and the game-over effect reads it as the agent holds it.                *)
(***************************************************************************)

\* await agent.call("setMode", [gameMode])
initGameSetMode ==
  /\ client = "start"
  /\ SetMode("ai-vs-ai")
  /\ client' = "modeSet"
  /\ UNCHANGED <<view, snaps>>

\* await agent.call("clearBoard"), then setTimeout(..., 500)
initGameClearBoard ==
  /\ client = "modeSet"
  /\ ClearBoard
  /\ client' = "timer"
  /\ UNCHANGED <<view, snaps>>

\* The timer of initGame fires: a random cell m is played as X.
initGameFirstMove(m) ==
  /\ client = "timer"
  /\ MakeMove(m, "X")
  /\ client' = "idle"
  /\ UNCHANGED <<view, snaps>>

\* The Move Source answers request q with the empty cell m.
Answer(q, m) ==
  /\ board[m[1]][m[2]] = null
  /\ Respond(q, m)
  /\ UNCHANGED ui

\* isGameOver of the game-over effect.
isGameOver == winner # null \/ IsFull(board)

\* The timer of the game-over effect fires: handleNewGame calls clearBoard.
AutoRestart ==
  /\ isGameOver
  /\ ClearBoard
  /\ UNCHANGED ui

NextAuto ==
  \/ initGameSetMode
  \/ initGameClearBoard
  \/ \E m \in Grid : initGameFirstMove(m)
  \/ \E q \in Requests, m \in Grid : Answer(q, m)
  \/ AutoRestart

SpecAuto == Init /\ [][NextAuto]_vars

\* The Move Source answers every request, and the timers of the client fire.
FairAuto ==
  /\ SpecAuto
  /\ WF_vars(initGameSetMode)
  /\ WF_vars(initGameClearBoard)
  /\ WF_vars(\E m \in Grid : initGameFirstMove(m))
  /\ WF_vars(\E q \in Requests, m \in Grid : Answer(q, m))
  /\ WF_vars(AutoRestart)

(***************************************************************************)
(* checkWinner on every board: the agent holds an arbitrary board over     *)
(* {null, X, O}, and the setState of makeMove (server.ts:60-66) stores     *)
(* checkWinner of it and broadcasts the state.                             *)
(***************************************************************************)

AllBoards == [Idx -> [Idx -> {null} \cup Players]]

InitBoards ==
  /\ board \in AllBoards
  /\ currentPlayer = "X"
  /\ winner = null
  /\ mode = "player-vs-ai"
  /\ isAiThinking = FALSE
  /\ pending = EmptyBag
  /\ thrown = Nothing
  /\ lastMover = null
  /\ view = InitialView
  /\ snaps = <<>>
  /\ client = "start"

\* winner: this.checkWinner(newBoard), for newBoard the board held.
SetWinner ==
  /\ winner' = checkWinner(board)
  /\ UNCHANGED <<board, currentPlayer, mode, isAiThinking>>
  /\ view' = Shot(FALSE)
  /\ UNCHANGED <<pending, thrown, lastMover, snaps, client>>

\* What makeMove does after the setState (server.ts:68-74): it returns when
\* there is a winner, returns when the board is full, and goes on otherwise.
Outcome(b) ==
  IF checkWinner(b) # null THEN "won"
  ELSE IF IsFull(b) THEN "draw"
  ELSE "in-progress"

NextBoards == SetWinner

SpecBoards == InitBoards /\ [][NextBoards]_vars

(***************************************************************************)
(* Vocabulary of the properties.                                           *)
(***************************************************************************)

\* The step handles a call or a response (it is not the delivery of an
\* error), and the call throws / returns.
Handles == thrown = Nothing
Throws  == Handles /\ thrown'.err # "none"
Returns == Handles /\ thrown'.err = "none"

\* The step is a makeMove call from a client.
ClientMove == \E m \in Moves, p \in Players : MakeMove(m, p)

\* The step is a reset or a mode change.
ResetOrMode == ClearBoard \/ \E m \in Modes : SetMode(m)

\* The step removes a request issued before the last clearBoard: its
\* response (a coordinate or a failure) has arrived.
StaleResponse ==
  \E q \in Requests : q.stale /\ CopiesIn(q, pending') < CopiesIn(q, pending)

\* Number of marks on board b.
Marks(b) == Cardinality({m \in Grid : b[m[1]][m[2]] # null})

\* The step writes exactly one mark, that of side p, into an empty cell.
Places(p) ==
  \E m \in Grid : /\ board[m[1]][m[2]] = null
                  /\ board' = [board EXCEPT ![m[1]][m[2]] = p]

(***************************************************************************)
(* C1: once winner is X or O, every later makeMove (a client's or a        *)
(* continuation's) fails and leaves board, currentPlayer and winner as     *)
(* they are, until clearBoard.                                             *)
(***************************************************************************)
C1_TerminalUntilReset ==
  [][(winner # null /\ Handles /\ ~ResetOrMode)
       => (Throws /\ UNCHANGED <<board, currentPlayer, winner>>)]_vars

(***************************************************************************)
(* C2: the response to a request that was outstanding when clearBoard ran  *)
(* is discarded: it changes neither board nor currentPlayer nor winner.    *)
(***************************************************************************)
C2_StaleResponseDiscarded ==
  [][StaleResponse => UNCHANGED <<board, currentPlayer, winner>>]_vars

(***************************************************************************)
(* C3: once a Move Source request has ended in failure (the call threw or  *)
(* its coordinate was rejected) isAiThinking is false; isAiThinking is     *)
(* never true with no request outstanding.                                 *)
(***************************************************************************)
C3_ThinkingClearedOnFailure ==
  /\ (thrown.logged => ~isAiThinking)
  /\ (isAiThinking => Outstanding > 0)

(***************************************************************************)
(* C4: at most one Move Source request is outstanding at any time.         *)
(***************************************************************************)
C4_AtMostOneRequest == Outstanding <= 1

(***************************************************************************)
(* C5: while isAiThinking is true no makeMove submitted by a client is     *)
(* applied: the call fails and the board is unchanged.                     *)
(***************************************************************************)
C5_NoClientMoveWhileThinking ==
  [][(isAiThinking /\ ClientMove) => (Throws /\ board' = board)]_vars

(***************************************************************************)
(* C6: makeMove with a player other than currentPlayer fails with the      *)
(* wrong-turn error, leaves board, currentPlayer, winner, mode and         *)
(* isAiThinking unchanged and issues no Move Source request.               *)
(***************************************************************************)
C6_WrongTurnRejected ==
  [][\/ (thrown'.err = "WrongTurn" /\ UNCHANGED state /\ pending' = pending)
     \/ ~\E m \in Moves, p \in Players : p # currentPlayer /\ MakeMove(m, p)]_vars

C6_Witness ==
  /\ thrown = [err |-> "WrongTurn", logged |-> FALSE]
  /\ Marks(board) >= 2
  /\ Outstanding > 0

(***************************************************************************)
(* C7: makeMove by the current player at a cell that holds X or O fails    *)
(* with the cell-occupied error and leaves board, currentPlayer, winner,   *)
(* mode and isAiThinking unchanged.                                        *)
(***************************************************************************)
C7_OccupiedCellRejected ==
  [][\/ (thrown'.err = "CellOccupied" /\ UNCHANGED state)
     \/ ~\E m \in Moves \cap Grid :
           board[m[1]][m[2]] # null /\ MakeMove(m, currentPlayer)]_vars

C7_Witness ==
  /\ thrown = [err |-> "CellOccupied", logged |-> FALSE]
  /\ Marks(board) >= 3
  /\ Outstanding = 0

(***************************************************************************)
(* C8: when the Move Source fails, or answers with a cell that is occupied *)
(* or outside the grid, board, currentPlayer and winner stay exactly as    *)
(* they were before the response: no mark is written.                      *)
(***************************************************************************)
C8_BadResponseChangesNothing ==
  [][\/ (Throws /\ UNCHANGED <<board, currentPlayer, winner>>)
     \/ ~\E q \in Requests :
           \/ Fail(q)
           \/ \E m \in Moves : /\ (m \notin Grid \/ board[m[1]][m[2]] # null)
                               /\ Respond(q, m)]_vars

C8_Witness ==
  /\ thrown = [err |-> "CellOccupied", logged |-> TRUE]
  /\ Marks(board) >= 1
  /\ winner = null
  /\ currentPlayer = "O"

(***************************************************************************)
(* C9: isAiThinking is true only if a Move Source request is outstanding   *)
(* that was issued for the side that is currentPlayer now.                 *)
(***************************************************************************)
C9_ThinkingHasRequestForCurrentSide ==
  isAiThinking => \E q \in Requests : BagIn(q, pending) /\ q.side = currentPlayer

(***************************************************************************)
(* C10: every applied makeMove writes the mark of the side that was        *)
(* currentPlayer before the call and makes the other side currentPlayer,   *)
(* so within one game no two consecutive applied moves are by one side.    *)
(***************************************************************************)
C10_TurnsAlternate ==
  [][(Returns /\ ~ResetOrMode)
       => /\ Places(currentPlayer)
          /\ currentPlayer' \in Players \ {currentPlayer}
          /\ lastMover' = currentPlayer
          /\ lastMover # currentPlayer]_vars

C10_Witness ==
  /\ thrown = Nothing
  /\ Marks(board) >= 4
  /\ lastMover = "O"
  /\ currentPlayer = "X"

\* The lines of the game, written out as sets of cells: three rows, three
\* columns and the two diagonals.
Lines ==
  {{<<r, c>> : c \in Idx} : r \in Idx}
    \cup {{<<r, c>> : r \in Idx} : c \in Idx}
    \cup {{<<i, i>> : i \in Idx}, {<<i, N - 1 - i>> : i \in Idx}}

\* Board b holds a line filled with the mark of side p.
HasLine(b, p) == \E L \in Lines : \A m \in L : b[m[1]][m[2]] = p

(***************************************************************************)
(* C11: a cell that holds X or O keeps that mark in every later state      *)
(* until clearBoard: no makeMove, setMode or Move Source response empties  *)
(* or overwrites it.                                                       *)
(***************************************************************************)
C11_MarksStay ==
  [][ClearBoard \/ \A m \in Grid :
       board[m[1]][m[2]] # null => board'[m[1]][m[2]] = board[m[1]][m[2]]]_vars

C11_Witness ==
  /\ Marks(board) >= 5
  /\ thrown = [err |-> "CellOccupied", logged |-> TRUE]
  /\ mode = "ai-vs-ai"

(***************************************************************************)
(* C12: winner is X (O) only if the board holds a row, column or diagonal  *)
(* whose three cells are all X (O).                                        *)
(***************************************************************************)
C12_WinnerHasLine == winner # null => HasLine(board, winner)

C12_Witness == winner = "X" /\ HasLine(board, "X") /\ ~HasLine(board, "O")

(***************************************************************************)
(* C13: no reachable board holds a completed line of X and a completed     *)
(* line of O at the same time.                                             *)
(***************************************************************************)
C13_NoTwoWinners == ~(HasLine(board, "X") /\ HasLine(board, "O"))

(***************************************************************************)
(* C14: for every 3x3 board over {null, X, O} with completed lines for at  *)
(* most one side, checkWinner returns that side if one of the eight lines  *)
(* is filled with its mark and null otherwise; with null, a full board is  *)
(* a draw and a board that is not full is in progress.                     *)
(***************************************************************************)
C14_CheckWinnerOnEveryBoard ==
  (view.board = board /\ ~(HasLine(board, "X") /\ HasLine(board, "O")))
    => /\ view.winner = winner
       /\ \A p \in Players : HasLine(board, p) => winner = p
       /\ (\A p \in Players : ~HasLine(board, p)) => winner = null
       /\ Outcome(board) =
            IF \E p \in Players : HasLine(board, p) THEN "won"
            ELSE IF Marks(board) = N * N THEN "draw"
            ELSE "in-progress"

\* A full board won by O on the second diagonal, after checkWinner ran.
C14_Witness ==
  /\ view.board = board
  /\ view.winner = "O"
  /\ Marks(board) = N * N
  /\ \A i \in Idx : board[i][N - 1 - i] = "O"
  /\ ~HasLine(board, "X")

(***************************************************************************)
(* C15: clearBoard, in any state, yields the initial state (empty board,   *)
(* currentPlayer X, winner null, isAiThinking false) with the mode held    *)
(* before the call.                                                        *)
(***************************************************************************)
C15_ClearBoardKeepsMode ==
  [][ClearBoard => /\ board' = EmptyBoard
                   /\ currentPlayer' = "X"
                   /\ winner' = null
                   /\ isAiThinking' = FALSE
                   /\ mode' = mode]_vars

\* A request that predates a reset can only be there after clearBoard.
C15_Witness ==
  /\ mode = "ai-vs-ai"
  /\ board = EmptyBoard
  /\ currentPlayer = "X"
  /\ ~isAiThinking
  /\ \E q \in Requests : q.stale /\ BagIn(q, pending)

(***************************************************************************)
(* C16: setMode changes only mode: board, currentPlayer, winner and        *)
(* isAiThinking are unchanged and no Move Source request is issued, also   *)
(* while a request is outstanding.                                         *)
(***************************************************************************)
C16_SetModeOnlyMode ==
  [][(\E m \in Modes : SetMode(m))
       => UNCHANGED <<board, currentPlayer, winner, isAiThinking, pending>>]_vars

\* A request for X is issued in ai-vs-ai mode only, and this one was issued
\* in the current game: setMode("player-vs-ai") ran while it was outstanding.
C16_Witness ==
  /\ mode = "player-vs-ai"
  /\ isAiThinking
  /\ BagIn(Request("X"), pending)
  /\ currentPlayer = "X"

(***************************************************************************)
(* C17: of two makeMove calls for the same side handled one after the      *)
(* other, at most one is applied: once a move of side p has been applied,  *)
(* a further call for p finds the turn passed on and fails, leaving the    *)
(* board as it is.                                                         *)
(***************************************************************************)
C17_SecondCallFails ==
  [][\/ (Throws /\ board' = board)
     \/ ~\E m \in Moves : lastMover \in Players /\ MakeMove(m, lastMover)]_vars

C17_Witness ==
  /\ lastMover = "X"
  /\ thrown = [err |-> "WrongTurn", logged |-> FALSE]
  /\ Marks(board) = 1

(***************************************************************************)
(* C18: in player-vs-ai mode every makeMove the client issues from a cell  *)
(* click is for the human side X and for a cell that the board shown has   *)
(* empty, whatever the order in which the snapshots reach the client.      *)
(***************************************************************************)
C18_ClicksAreForX ==
  [][\A m \in Moves \cap Grid :
       \/ view.currentPlayer = "X" /\ view.board[m[1]][m[2]] = null
       \/ ~handleCellClick(m)]_vars

(***************************************************************************)
(* C19: in ai-vs-ai mode, once the first move has been applied, a Move     *)
(* Source that answers every request with an empty cell brings the game    *)
(* to a terminal state (winner set or board full) with isAiThinking false  *)
(* and no request outstanding, without any client input.                   *)
(***************************************************************************)
C19_AutomatedGameEnds ==
  (mode = "ai-vs-ai" /\ client = "idle" /\ Marks(board) >= 1)
    ~> ((winner # null \/ IsFull(board)) /\ ~isAiThinking /\ Outstanding = 0)

\* A game played to a draw by the Move Source alone.
C19_Witness ==
  /\ mode = "ai-vs-ai"
  /\ client = "idle"
  /\ winner = null
  /\ Marks(board) = N * N
  /\ ~isAiThinking
  /\ Outstanding = 0

(***************************************************************************)
(* C20: in ai-vs-ai mode the automatic restart continues indefinitely:     *)
(* after each completed game the client resets the board and another game  *)
(* is played to completion.  In the form of a finite run: once the first   *)
(* move has been made, there is always a game that is over and about to be *)
(* restarted, or a game under way with a request at the Move Source.       *)
(***************************************************************************)
C20_AnotherGameIsPlayed ==
  (mode = "ai-vs-ai" /\ client = "idle")
    => (winner # null \/ IsFull(board) \/ Outstanding > 0)

\* Number of cells of board b that hold the mark of side p.
Count(b, p) == Cardinality({m \in Grid : b[m[1]][m[2]] = p})

(***************************************************************************)
(* C21: a coordinate returned by the Move Source is applied with the mark  *)
(* of the side for which the request was issued, never as the other side,  *)
(* also when client moves, setMode or clearBoard were processed while the  *)
(* request was outstanding.                                                *)
(***************************************************************************)
C21_ResponseAppliedForRequestedSide ==
  [][\A q \in Requests, m \in Moves :
       \/ board' = board
       \/ Places(q.side)
       \/ ~Respond(q, m)]_vars

C23_CountsAgreeWithTurn ==
  Count(board, "X") - Count(board, "O") = IF currentPlayer = "X" THEN 0 ELSE 1

\* A game begun after a reset, with the response to a request of the game
\* before applied in it.
C23_Witness ==
  /\ currentPlayer = "O"
  /\ Count(board, "X") = 3
  /\ Count(board, "O") = 2
  /\ \E q \in Requests : q.stale /\ BagIn(q, pending)
  /\ mode = "ai-vs-ai"

====
